---- MODULE Spec2Model ----
(***************************************************************************)
(* Model of the siwe_native NIF library (native/siwe_native/src/lib.rs and *)
(* runtime.rs): the host record <-> engine Message conversions, the        *)
(* VerifyOptions conversion, the asynchronous verify / parse_if_valid      *)
(* entry points and the process-wide tokio runtime.                        *)
(*                                                                         *)
(* The EIP-4361 engine itself (siwe::Message: from_str, to_string, verify, *)
(* valid_now) is a dependency whose code is not part of the sources; it is *)
(* modelled from the specification (sections 4.1 and 4.2).                 *)
(***************************************************************************)
EXTENDS Integers, Sequences, FiniteSets, TLC

VARIABLES
    clock,      \* wall-clock time (OffsetDateTime::now_utc), in seconds
    RUNTIME,    \* the OnceCell<Runtime>: None or Some(configuration)
    nifLoaded,  \* the library's load callback has returned true
    built,      \* number of runtimes ever built (Builder::build calls)
    lastLoad,   \* configuration decoded by the most recent load, if any
    tasks,      \* units of work spawned on the runtime, in spawn order
    mailbox,    \* per host pid: result messages delivered to it
    calls,      \* returns of the asynchronous NIF calls made so far
    nCalls,     \* number of asynchronous NIF calls ever made
    hostAlive,  \* the host process (the VM) is running
    poolAlive,  \* the runtime's worker threads are running
    conv        \* the synchronous to_str / parse pipeline of one host value

vars == <<clock, RUNTIME, nifLoaded, built, lastLoad, tasks, mailbox,
          calls, nCalls, hostAlive, poolAlive, conv>>

bridgeVars == <<clock, RUNTIME, nifLoaded, built, lastLoad, tasks,
                mailbox, calls, nCalls, hostAlive, poolAlive>>

----------------------------------------------------------------------------
(* Bounds.                                                                 *)

\* wall-clock instants and message instants range over 0..MaxTime
MaxTime == 3
\* asynchronous NIF calls made in one behaviour of Spec
MaxCalls == 2
\* asynchronous NIF calls made in one behaviour of SpecEngine
MaxEngineCalls == 1

----------------------------------------------------------------------------
(* Option<T> and Result<T, E>.                                             *)

None == <<>>
Some(x) == <<x>>
IsSome(o) == o # <<>>
Unwrap(o) == o[1]

Ok(v) == [ok |-> TRUE, val |-> v, err |-> ""]
Err(e) == [ok |-> FALSE, val |-> "", err |-> e]

----------------------------------------------------------------------------
(* Text primitives of the libraries the conversions call.  A host String   *)
(* whose first two characters the code skips (address, signature) is the   *)
(* pair <<first two characters, rest>>.                                    *)

\* the two 20-byte accounts of the model, named by their lowercase digits
Addr1 == "d8da6bf26964af9d7eed9e03e53415d37aa96045"
Addr2 == "5aaeb6053f3e94c9b9a09f33669435e7ef1beaed"

\* <[u8; 20]>::from_hex: an optional 0x prefix, then 40 hex digits in any
\* letter casing; anything else is an error
HexDecode20(s) ==
    CASE s \in {"d8da6bf26964af9d7eed9e03e53415d37aa96045",
                "D8DA6BF26964AF9D7EED9E03E53415D37AA96045",
                "d8dA6BF26964aF9D7eEd9e03E53415D37aA96045",
                "0xd8da6bf26964af9d7eed9e03e53415d37aa96045"} -> Ok(Addr1)
      [] s \in {"5aaeb6053f3e94c9b9a09f33669435e7ef1beaed",
                "5AAEB6053F3E94C9B9A09F33669435E7EF1BEAED",
                "5aAeb6053F3E94C9b9A09f33669435E7Ef1BeAed",
                "0x5aaeb6053f3e94c9b9a09f33669435e7ef1beaed"} -> Ok(Addr2)
      [] s \in {"da6bf26964af9d7eed9e03e53415d37aa96045", ""} ->
            Err("Invalid string length")
      [] OTHER -> Err("Invalid character")

\* Address::to_checksum(None): 0x and the EIP-55 mixed-case digits
ToChecksum(a) ==
    IF a = Addr1 THEN <<"0x", "d8dA6BF26964aF9D7eEd9e03E53415D37aA96045">>
                 ELSE <<"0x", "5aAeb6053F3E94C9b9A09f33669435E7Ef1BeAed">>

\* RFC-3339 renderings of the instants 0, 1, 2, ... (TimeStamp's Display)
TsCanon == <<"2024-01-01T00:00:00Z", "2024-01-01T00:00:01Z",
             "2024-01-01T00:00:02Z", "2024-01-01T00:00:03Z",
             "2024-01-01T00:00:04Z", "2024-01-01T00:00:05Z">>
\* the same instants written with an explicit zero offset
TsAlt == <<"2024-01-01T00:00:00+00:00", "2024-01-01T00:00:01+00:00",
           "2024-01-01T00:00:02+00:00", "2024-01-01T00:00:03+00:00",
           "2024-01-01T00:00:04+00:00", "2024-01-01T00:00:05+00:00">>
BadTimestamp == "yesterday"

\* TimeStamp::from_str / OffsetDateTime::parse(_, &Rfc3339)
TimeStampFromStr(s) ==
    IF \E i \in 1..Len(TsCanon) : TsCanon[i] = s \/ TsAlt[i] = s
    THEN Ok((CHOOSE i \in 1..Len(TsCanon) : TsCanon[i] = s \/ TsAlt[i] = s) - 1)
    ELSE Err("invalid timestamp")

\* TimeStamp::to_string
TimeStampToString(t) == TsCanon[t + 1]

\* http::uri::Authority::from_str
GoodDomains == {"example.com", "evil.com"}
BadDomain == "exa mple.com"
AuthorityFromStr(s) == IF s \in GoodDomains THEN Ok(s) ELSE Err("invalid uri character")

\* iri_string UriString::from_str
GoodUris == {"https://example.com/login", "ipfs://res1", "https://example.com/res2"}
BadUri == "not a uri"
UriFromStr(s) == IF s \in GoodUris THEN Ok(s) ELSE Err("invalid URI")

\* siwe::Version::from_str
VersionFromStr(s) == IF s = "1" THEN Ok("V1") ELSE Err("invalid version")

----------------------------------------------------------------------------
(* lib.rs: the conversions between Parsed (host record) and Message.       *)

RECURSIVE ResourcesFrom(_)
\* lib.rs 62-67: every resource parsed in order, the first failure returned
ResourcesFrom(rs) ==
    IF rs = <<>> THEN Ok(<<>>)
    ELSE LET x == UriFromStr(Head(rs)) IN
         IF ~x.ok THEN Err("Failed to parse resource")
         ELSE LET rest == ResourcesFrom(Tail(rs)) IN
              IF ~rest.ok THEN rest ELSE Ok(<<x.val>> \o rest.val)

from_timestamp(maybe_timestamp) ==
    IF maybe_timestamp = None THEN None
    ELSE Some(TimeStampToString(Unwrap(maybe_timestamp)))

to_timestamp_dropping(maybe_string) == None

to_timestamp(maybe_string) ==
    IF maybe_string = None THEN None
    ELSE LET r == TimeStampFromStr(Unwrap(maybe_string)) IN
         IF r.ok THEN Some(r.val) ELSE None

version_string(v) == "1"

\* a Message-shaped value standing where no Message was produced
NoMessage ==
    [domain |-> "", address |-> "", statement |-> None, uri |-> "",
     version |-> "", chain_id |-> 0, nonce |-> "", issued_at |-> 0,
     expiration_time |-> None, not_before |-> None, request_id |-> None,
     resources |-> <<>>]

MsgOk(m) == [ok |-> TRUE, val |-> m, err |-> ""]
MsgErr(e) == [ok |-> FALSE, val |-> NoMessage, err |-> e]

to_eip4361_message(p) ==
    LET res == ResourcesFrom(p.resources)
        dom == AuthorityFromStr(p.domain)
        adr == HexDecode20(p.address[2])
        uri == UriFromStr(p.uri)
        ver == VersionFromStr(p.version)
        iat == TimeStampFromStr(p.issued_at)
    IN  IF ~res.ok THEN MsgErr(res.err)
        ELSE IF ~dom.ok THEN MsgErr("Bad domain")
        ELSE IF ~adr.ok THEN MsgErr("Bad address")
        ELSE IF ~uri.ok THEN MsgErr("Bad uri")
        ELSE IF ~ver.ok THEN MsgErr("Bad version")
        ELSE IF ~iat.ok THEN MsgErr("Failed to convert issued at")
        ELSE MsgOk([domain |-> dom.val, address |-> adr.val,
                    statement |-> p.statement, uri |-> uri.val,
                    version |-> ver.val, chain_id |-> p.chain_id,
                    nonce |-> p.nonce, issued_at |-> iat.val,
                    expiration_time |-> to_timestamp(p.expiration_time),
                    not_before |-> to_timestamp(p.not_before),
                    request_id |-> p.request_id,
                    resources |-> res.val])

\* a Parsed-shaped value standing where no record was produced
NoParsed ==
    [domain |-> "", address |-> <<"", "">>, statement |-> None, uri |-> "",
     version |-> "", chain_id |-> 0, nonce |-> "", issued_at |-> "",
     expiration_time |-> None, not_before |-> None, request_id |-> None,
     resources |-> <<>>]

message_to_parsed_swapped(m) ==
    [domain |-> m.domain, address |-> ToChecksum(m.address),
     statement |-> m.statement, uri |-> m.uri,
     version |-> version_string(m.version), chain_id |-> m.chain_id,
     nonce |-> m.nonce, issued_at |-> TimeStampToString(m.issued_at),
     expiration_time |-> from_timestamp(m.expiration_time),
     not_before |-> from_timestamp(m.expiration_time),
     request_id |-> m.request_id,
     resources |-> m.resources]

message_to_parsed(m) ==
    [domain |-> m.domain, address |-> ToChecksum(m.address),
     statement |-> m.statement, uri |-> m.uri,
     version |-> version_string(m.version), chain_id |-> m.chain_id,
     nonce |-> m.nonce, issued_at |-> TimeStampToString(m.issued_at),
     expiration_time |-> from_timestamp(m.expiration_time),
     not_before |-> from_timestamp(m.not_before),
     request_id |-> m.request_id,
     resources |-> m.resources]

----------------------------------------------------------------------------
(* The engine (siwe::Message), from the specification.                     *)

ChainIdToString(n) == IF n = 1 THEN "1" ELSE "5"
ChainIdFromStr(s) ==
    CASE s = "1" -> Ok(1) [] s = "5" -> Ok(5) [] OTHER -> Err("invalid chain id")

OptLine(key, o) == IF o = None THEN <<>> ELSE << <<key, Unwrap(o)>> >>

\* Message::to_string: the canonical text, one tuple per line
Serialize(m) ==
    << <<"preamble", m.domain>>,
       <<"address", ToChecksum(m.address)[1], ToChecksum(m.address)[2]>> >>
    \o OptLine("statement", m.statement)
    \o << <<"URI", m.uri>>,
          <<"Version", version_string(m.version)>>,
          <<"Chain ID", ChainIdToString(m.chain_id)>>,
          <<"Nonce", m.nonce>>,
          <<"Issued At", TimeStampToString(m.issued_at)>> >>
    \o OptLine("Expiration Time", from_timestamp(m.expiration_time))
    \o OptLine("Not Before", from_timestamp(m.not_before))
    \o OptLine("Request ID", m.request_id)
    \o [i \in 1..Len(m.resources) |-> <<"Resource", m.resources[i]>>]

HasLine(text, i, key) == i <= Len(text) /\ text[i][1] = key

\* Message::from_str: the strict parser of the canonical text
ParseText(text) ==
    LET b  == IF HasLine(text, 3, "statement") THEN 4 ELSE 3
        e  == b + 5
        n  == IF HasLine(text, e, "Expiration Time") THEN e + 1 ELSE e
        q  == IF HasLine(text, n, "Not Before") THEN n + 1 ELSE n
        r  == IF HasLine(text, q, "Request ID") THEN q + 1 ELSE q
        shape ==
            /\ HasLine(text, 1, "preamble") /\ Len(text[1]) = 2
            /\ HasLine(text, 2, "address") /\ Len(text[2]) = 3
            /\ HasLine(text, b, "URI")
            /\ HasLine(text, b + 1, "Version")
            /\ HasLine(text, b + 2, "Chain ID")
            /\ HasLine(text, b + 3, "Nonce")
            /\ HasLine(text, b + 4, "Issued At")
            /\ \A i \in r..Len(text) : text[i][1] = "Resource"
    IN  IF ~shape THEN MsgErr("unexpected line")
        ELSE
        LET dom == AuthorityFromStr(text[1][2])
            adr == IF text[2][2] = "0x" THEN HexDecode20(text[2][3])
                                        ELSE Err("missing 0x")
            uri == UriFromStr(text[b][2])
            ver == VersionFromStr(text[b + 1][2])
            cid == ChainIdFromStr(text[b + 2][2])
            iat == TimeStampFromStr(text[b + 4][2])
            exp == IF n > e THEN TimeStampFromStr(text[e][2]) ELSE Ok(0)
            nbf == IF q > n THEN TimeStampFromStr(text[n][2]) ELSE Ok(0)
            res == ResourcesFrom([i \in 1..(Len(text) - r + 1) |-> text[r + i - 1][2]])
        IN  IF ~dom.ok THEN MsgErr("invalid domain")
            ELSE IF ~adr.ok THEN MsgErr("invalid address")
            ELSE IF ~uri.ok THEN MsgErr("invalid uri")
            ELSE IF ~ver.ok THEN MsgErr("invalid version")
            ELSE IF ~cid.ok THEN MsgErr("invalid chain id")
            ELSE IF ~iat.ok \/ ~exp.ok \/ ~nbf.ok THEN MsgErr("invalid timestamp")
            ELSE IF ~res.ok THEN MsgErr("invalid resource")
            ELSE MsgOk([domain |-> dom.val, address |-> adr.val,
                        statement |-> IF b = 4 THEN Some(text[3][2]) ELSE None,
                        uri |-> uri.val, version |-> ver.val,
                        chain_id |-> cid.val, nonce |-> text[b + 3][2],
                        issued_at |-> iat.val,
                        expiration_time |-> IF n > e THEN Some(exp.val) ELSE None,
                        not_before |-> IF q > n THEN Some(nbf.val) ELSE None,
                        request_id |-> IF r > q THEN Some(text[q][2]) ELSE None,
                        resources |-> res.val])

\* time validity (section 4.2 step 3): which rejection, if any, at instant t
TimeCheck(m, t) ==
    IF ~(m.issued_at <= t) THEN "NotYetValid"
    ELSE IF IsSome(m.not_before) /\ ~(Unwrap(m.not_before) <= t) THEN "NotYetValid"
    ELSE IF IsSome(m.expiration_time) /\ ~(t < Unwrap(m.expiration_time)) THEN "Expired"
    ELSE "pass"

\* Message::valid_at
ValidAt(m, t) == TimeCheck(m, t) = "pass"

\* section 4.2 steps 1-3, in order, short-circuiting
FieldChecks(m, opts, now) ==
    IF IsSome(opts.domain) /\ Unwrap(opts.domain) # m.domain THEN "DomainMismatch"
    ELSE IF IsSome(opts.nonce) /\ Unwrap(opts.nonce) # m.nonce THEN "NonceMismatch"
    ELSE TimeCheck(m, now)

\* raw signature bytes: their length and, for 65 bytes, the address that
\* recovery over the request's canonical text yields
SigBytes(n, who) == [len |-> n, signer |-> who]
NoSig == SigBytes(0, "")

\* section 4.2 step 4, the recovery path
RecoveryPasses(m, s) == s.len = 65 /\ s.signer = m.address

\* Message::verify up to its only suspension point: "pass", a rejection, or
\* "rpc" when the contract-based check has to be awaited
EngineVerify(m, s, opts, now) ==
    LET f == FieldChecks(m, opts, now) IN
    IF f # "pass" THEN f
    ELSE IF RecoveryPasses(m, s) THEN "pass"
    ELSE IF IsSome(opts.rpc_provider) THEN "rpc"
    ELSE "BadSignature"

\* the outcome of the awaited contract call
RpcOutcomes == {"valid", "invalid", "transport_error"}
AfterRpc(outcome) == IF outcome = "valid" THEN "pass" ELSE "BadSignature"

----------------------------------------------------------------------------
(* lib.rs: signature decoding and the VerifyOptions conversion.            *)

\* hex digits of the model's signatures, named by what they decode to
HexDecodeDigits(d) ==
    CASE d = "<130 hex digits: signature by d8da..6045>" -> Ok(SigBytes(65, Addr1))
      [] d = "<130 hex digits: signature by 5aae..aaed>" -> Ok(SigBytes(65, Addr2))
      [] d = "<128 hex digits>" -> Ok(SigBytes(64, ""))
      [] OTHER -> [ok |-> FALSE, val |-> NoSig, err |-> "Invalid character"]

\* hex::decode(sig): the whole string, with or without a 0x prefix
HexDecode(sig) ==
    IF sig[1] = "0x" THEN HexDecodeDigits(sig[2])
    ELSE IF sig = <<"1c", "<128 hex digits>">>
         THEN Ok(SigBytes(65, Addr1))
         ELSE [ok |-> FALSE, val |-> NoSig, err |-> "Invalid character"]

\* <[u8; 65]>::from_hex(sig.chars().skip(2).collect())
HexDecode65(sig) ==
    LET d == HexDecodeDigits(sig[2]) IN
    IF d.ok /\ d.val.len # 65
    THEN [ok |-> FALSE, val |-> NoSig, err |-> "Invalid string length"]
    ELSE d

GoodRpcUrl == "https://rpc.example.com"
BadRpcUrl == "not a url"
UrlParse(s) == IF s = GoodRpcUrl THEN Ok(s) ELSE Err("relative URL without a base")

OptsIntoDroppingNonce(o) ==
    [domain |-> IF o.domain = None THEN None
                ELSE LET a == AuthorityFromStr(Unwrap(o.domain)) IN
                     IF a.ok THEN Some(a.val) ELSE None,
     nonce |-> None,
     timestamp |-> IF o.timestamp = None THEN None
                   ELSE LET t == TimeStampFromStr(Unwrap(o.timestamp)) IN
                        IF t.ok THEN Some(t.val) ELSE None,
     rpc_provider |-> IF o.rpc_url = None THEN None
                      ELSE Some(UrlParse(Unwrap(o.rpc_url)).val)]

OptsIntoDroppingRpc(o) ==
    [domain |-> IF o.domain = None THEN None
                ELSE LET a == AuthorityFromStr(Unwrap(o.domain)) IN
                     IF a.ok THEN Some(a.val) ELSE None,
     nonce |-> o.nonce,
     timestamp |-> IF o.timestamp = None THEN None
                   ELSE LET t == TimeStampFromStr(Unwrap(o.timestamp)) IN
                        IF t.ok THEN Some(t.val) ELSE None,
     rpc_provider |-> None]

\* impl Into<VerificationOpts> for VerifyOptions
OptsInto(o) ==
    [domain |-> IF o.domain = None THEN None
                ELSE LET a == AuthorityFromStr(Unwrap(o.domain)) IN
                     IF a.ok THEN Some(a.val) ELSE None,
     nonce |-> o.nonce,
     timestamp |-> IF o.timestamp = None THEN None
                   ELSE LET t == TimeStampFromStr(Unwrap(o.timestamp)) IN
                        IF t.ok THEN Some(t.val) ELSE None,
     rpc_provider |-> IF o.rpc_url = None THEN None
                      ELSE Some(UrlParse(Unwrap(o.rpc_url)).val)]

\* the unwrap of lib.rs line 53 panics
OptsIntoPanics(o) == IsSome(o.rpc_url) /\ ~UrlParse(Unwrap(o.rpc_url)).ok

----------------------------------------------------------------------------
(* runtime.rs: the process-wide runtime.                                   *)

Pids == {"p1", "p2"}

\* AsyncRuntimeOptions terms the model loads with
LoadCfgs ==
    {[worker_threads |-> None, enable_time |-> TRUE, enable_io |-> TRUE],
     [worker_threads |-> Some(2), enable_time |-> FALSE, enable_io |-> FALSE]}

RuntimeReinit(cur, cfg) == Some(cfg)

RuntimeLeftEmpty(cur, cfg) == cur

\* RUNTIME.get_or_init(|| build(options)): the cell's content after the call
RuntimeAfterLoad(cur, cfg) == IF cur = None THEN Some(cfg) ELSE cur

\* load with a term that decodes to AsyncRuntimeOptions
Load(cfg) ==
    /\ hostAlive
    /\ lastLoad' = Some(cfg)
    /\ RUNTIME' = RuntimeAfterLoad(RUNTIME, cfg)
    /\ built' = IF RUNTIME' # RUNTIME THEN built + 1 ELSE built
    /\ poolAlive' = IF RUNTIME = None THEN TRUE ELSE poolAlive
    /\ nifLoaded' = TRUE
    /\ UNCHANGED <<clock, tasks, mailbox, calls, nCalls, hostAlive, conv>>

\* load with a term that does not decode: the unwrap of line 20 panics
\* before the cell is touched, and nothing of the state changes
LoadBadTerm ==
    /\ hostAlive
    /\ UNCHANGED vars

----------------------------------------------------------------------------
(* lib.rs: the asynchronous entry points.                                  *)

HostAbortsOnNifPanic(h) == FALSE

\* a panic inside a #[rustler::nif] body is caught by the generated wrapper
\* and raised in the calling process; the VM keeps running
HostAfterNifPanic(h) == h

PoolDiesOnTaskPanic(a) == FALSE

\* a panic inside a future spawned on the runtime is caught by the runtime
\* at the task boundary; its workers keep running
PoolAfterTaskPanic(a) == a

NewTask(kind, p, rec, text, sig, o) ==
    [kind |-> kind, caller |-> p, rec |-> rec, text |-> text, sig |-> sig,
     raw |-> o, opts |-> OptsInto(o), pc |-> "spawned", m |-> MsgErr(""),
     vres |-> "", evalAt |-> -1, timeSrc |-> "", rpcOutcome |-> "",
     checkedAt |-> -1, pool |-> RUNTIME]

\* the part verify and parse_if_valid share: env.pid(), opts.into(),
\* runtime::spawn(..), ok()
AsyncCall(kind, p, rec, text, sig, o) ==
    /\ hostAlive
    /\ nifLoaded
    /\ nCalls' = nCalls + 1
    /\ IF OptsIntoPanics(o) \/ RUNTIME = None
       THEN /\ calls' = Append(calls, [caller |-> p, ret |-> "raised", task |-> 0])
            /\ hostAlive' = HostAfterNifPanic(hostAlive)
            /\ UNCHANGED tasks
       ELSE /\ tasks' = Append(tasks, NewTask(kind, p, rec, text, sig, o))
            /\ calls' = Append(calls, [caller |-> p, ret |-> "ok",
                                       task |-> Len(tasks) + 1])
            /\ UNCHANGED hostAlive
    /\ UNCHANGED <<clock, RUNTIME, nifLoaded, built, lastLoad, mailbox,
                   poolAlive, conv>>

verify(p, message, sig, opts) == AsyncCall("verify", p, message, <<>>, sig, opts)

parse_if_valid(p, message, sig, opts) ==
    AsyncCall("parse_if_valid", p, NoParsed, message, sig, opts)

ErrMsgGeneric(i, e) ==
    [task |-> i, tag |-> "error", bool |-> FALSE, parsed |-> NoParsed,
     err |-> "Verification failed"]

\* result terms sent to the caller
BoolMsg(i, b) == [task |-> i, tag |-> "bool", bool |-> b, parsed |-> NoParsed, err |-> ""]
OkMsg(i, rec) == [task |-> i, tag |-> "ok", bool |-> FALSE, parsed |-> rec, err |-> ""]
ErrMsg(i, e) == [task |-> i, tag |-> "error", bool |-> FALSE, parsed |-> NoParsed, err |-> e]

SendToOverwriting(pid, msg) == mailbox' = [mailbox EXCEPT ![pid] = <<msg>>]

\* OwnedEnv::new().send_and_clear(&caller, ..)
SendTo(pid, msg) == mailbox' = [mailbox EXCEPT ![pid] = Append(@, msg)]

\* options.timestamp if present, else the wall clock (section 4.2 step 3)
ResolveNow(opts, wall) ==
    IF IsSome(opts.timestamp) THEN Unwrap(opts.timestamp) ELSE wall

TimeSource(opts) == IF IsSome(opts.timestamp) THEN "override" ELSE "wallclock"

Runnable(i, kind, pc) ==
    /\ hostAlive /\ poolAlive
    /\ i \in DOMAIN tasks
    /\ tasks[i].kind = kind
    /\ tasks[i].pc = pc

VerifyResultAlwaysTrue(v) == TRUE

\* lib.rs 152-158: what the verify task sends for an engine outcome
VerifyResult(v) == v = "pass"

\* the body of the future spawned by verify, up to the engine's await
RunVerify(i) ==
    /\ Runnable(i, "verify", "spawned")
    /\ LET t   == tasks[i]
           mr  == to_eip4361_message(t.rec)
           sr  == HexDecode(t.sig)
           now == ResolveNow(t.opts, clock)
           v   == IF ~mr.ok THEN "convert_error"
                  ELSE IF ~sr.ok THEN "sig_error"
                  ELSE EngineVerify(mr.val, sr.val, t.opts, now)
           eng == mr.ok /\ sr.ok
           t1  == [t EXCEPT !.m = mr,
                            !.evalAt = IF eng THEN now ELSE -1,
                            !.timeSrc = IF eng THEN TimeSource(t.opts) ELSE ""]
       IN  IF v = "rpc"
           THEN /\ tasks' = [tasks EXCEPT ![i] = [t1 EXCEPT !.pc = "rpc"]]
                /\ UNCHANGED mailbox
           ELSE /\ tasks' = [tasks EXCEPT ![i] = [t1 EXCEPT !.pc = "sent", !.vres = v]]
                /\ SendTo(t.caller, BoolMsg(i, VerifyResult(v)))
    /\ UNCHANGED <<clock, RUNTIME, nifLoaded, built, lastLoad, calls,
                   nCalls, hostAlive, poolAlive, conv>>

\* the body of the future spawned by parse_if_valid, up to the engine's
\* await or to the return of m.verify
RunParseIfValid(i) ==
    /\ Runnable(i, "parse_if_valid", "spawned")
    /\ LET t   == tasks[i]
           sr  == HexDecode65(t.sig)
           mr  == IF sr.ok THEN ParseText(t.text) ELSE MsgErr("")
           now == ResolveNow(t.opts, clock)
           v   == IF ~sr.ok THEN "sig_error"
                  ELSE IF ~mr.ok THEN "parse_error"
                  ELSE EngineVerify(mr.val, sr.val, t.opts, now)
           eng == mr.ok /\ sr.ok
           t1  == [t EXCEPT !.m = mr,
                            !.evalAt = IF eng THEN now ELSE -1,
                            !.timeSrc = IF eng THEN TimeSource(t.opts) ELSE ""]
       IN  CASE v = "rpc" ->
                /\ tasks' = [tasks EXCEPT ![i] = [t1 EXCEPT !.pc = "rpc"]]
                /\ UNCHANGED mailbox
             [] v = "pass" ->
                /\ tasks' = [tasks EXCEPT ![i] = [t1 EXCEPT !.pc = "verified", !.vres = v]]
                /\ UNCHANGED mailbox
             [] OTHER ->
                /\ tasks' = [tasks EXCEPT ![i] = [t1 EXCEPT !.pc = "sent", !.vres = v]]
                /\ SendTo(t.caller,
                          ErrMsg(i, IF v = "sig_error" THEN "Failed to convert sig to bytes"
                                    ELSE IF v = "parse_error" THEN mr.err
                                    ELSE v))
    /\ UNCHANGED <<clock, RUNTIME, nifLoaded, built, lastLoad, calls,
                   nCalls, hostAlive, poolAlive, conv>>

\* the awaited contract call returns
RpcDone(i, outcome) ==
    /\ hostAlive /\ poolAlive
    /\ i \in DOMAIN tasks
    /\ tasks[i].pc = "rpc"
    /\ LET t == tasks[i]
           v == AfterRpc(outcome)
           t1 == [t EXCEPT !.rpcOutcome = outcome, !.vres = v]
       IN  IF t.kind = "verify"
           THEN /\ tasks' = [tasks EXCEPT ![i] = [t1 EXCEPT !.pc = "sent"]]
                /\ SendTo(t.caller, BoolMsg(i, VerifyResult(v)))
           ELSE IF v = "pass"
           THEN /\ tasks' = [tasks EXCEPT ![i] = [t1 EXCEPT !.pc = "verified"]]
                /\ UNCHANGED mailbox
           ELSE /\ tasks' = [tasks EXCEPT ![i] = [t1 EXCEPT !.pc = "sent"]]
                /\ SendTo(t.caller, ErrMsg(i, v))
    /\ UNCHANGED <<clock, RUNTIME, nifLoaded, built, lastLoad, calls,
                   nCalls, hostAlive, poolAlive, conv>>

GateWithoutCheck(i, m, wall) == OkMsg(i, message_to_parsed(m))

\* lib.rs 179-185: the result after m.verify returned Ok
GateResult(i, m, wall) ==
    IF ValidAt(m, wall) THEN OkMsg(i, message_to_parsed(m))
                        ELSE ErrMsg(i, "Invalid time")

\* m.valid_now() and the send, after m.verify returned Ok
FreshnessGate(i) ==
    /\ Runnable(i, "parse_if_valid", "verified")
    /\ LET t == tasks[i] IN
       /\ tasks' = [tasks EXCEPT ![i] = [t EXCEPT !.pc = "sent", !.checkedAt = clock]]
       /\ SendTo(t.caller, GateResult(i, t.m.val, clock))
    /\ UNCHANGED <<clock, RUNTIME, nifLoaded, built, lastLoad, calls,
                   nCalls, hostAlive, poolAlive, conv>>

\* the future panics while the contract call runs (for one, the HTTP client
\* on a runtime built without enable_io); nothing around the future catches
\* it and the JoinHandle is dropped, so nothing is sent
TaskPanic(i) ==
    /\ hostAlive /\ poolAlive
    /\ i \in DOMAIN tasks
    /\ tasks[i].pc = "rpc"
    /\ tasks' = [tasks EXCEPT ![i].pc = "panicked"]
    /\ poolAlive' = PoolAfterTaskPanic(poolAlive)
    /\ UNCHANGED <<clock, RUNTIME, nifLoaded, built, lastLoad, mailbox,
                   calls, nCalls, hostAlive, conv>>

\* the wall clock advances
Tick ==
    /\ clock < MaxTime
    /\ clock' = clock + 1
    /\ UNCHANGED <<RUNTIME, nifLoaded, built, lastLoad, tasks, mailbox,
                   calls, nCalls, hostAlive, poolAlive, conv>>

Finished(t) == t.pc \in {"sent", "panicked"}
Quiet == \A i \in DOMAIN tasks : Finished(tasks[i])

\* the callers consume their messages and the finished futures are dropped
Retire ==
    /\ calls # <<>>
    /\ Quiet
    /\ tasks' = <<>>
    /\ calls' = <<>>
    /\ mailbox' = [p \in Pids |-> <<>>]
    /\ UNCHANGED <<clock, RUNTIME, nifLoaded, built, lastLoad, nCalls,
                   hostAlive, poolAlive, conv>>

----------------------------------------------------------------------------
(* The requests the host makes.                                            *)

BaseRecord ==
    [domain |-> "example.com",
     address |-> <<"0x", "d8da6bf26964af9d7eed9e03e53415d37aa96045">>,
     statement |-> Some("Sign in to example"),
     uri |-> "https://example.com/login", version |-> "1", chain_id |-> 1,
     nonce |-> "nonce0001", issued_at |-> TsCanon[1],
     expiration_time |-> None, not_before |-> None, request_id |-> None,
     resources |-> <<"ipfs://res1">>]

Timed(iat, nbf, exp) ==
    [BaseRecord EXCEPT !.issued_at = iat, !.not_before = nbf, !.expiration_time = exp]

\* a record whose domain is no authority
BadRecord == [BaseRecord EXCEPT !.domain = BadDomain]

\* records with well-formed timestamps
WellTimedRecords ==
    {Timed(iat, nbf, exp) : iat \in {TsCanon[1], TsCanon[3]},
                            nbf \in {None, Some(TsCanon[2])},
                            exp \in {None, Some(TsCanon[3])}}

EngineRecords ==
    {Timed(iat, nbf, exp) : iat \in {TsCanon[1], TsCanon[3]},
                            nbf \in {None, Some(TsCanon[2]), Some(BadTimestamp)},
                            exp \in {None, Some(TsCanon[3]), Some(BadTimestamp)}}
    \cup {BadRecord}

\* a text with its Nonce line missing
MalformedText ==
    LET t == Serialize(to_eip4361_message(BaseRecord).val) IN
    SubSeq(t, 1, 5) \o SubSeq(t, 7, Len(t))

EngineTexts ==
    {Serialize(to_eip4361_message(r).val) : r \in WellTimedRecords}
    \cup {MalformedText}

SigByAddr1 == <<"0x", "<130 hex digits: signature by d8da..6045>">>
SigByAddr2 == <<"0x", "<130 hex digits: signature by 5aae..aaed>">>
SigShort == <<"0x", "<128 hex digits>">>
SigNotHex == <<"no", "t hex">>
SigBare == <<"1c", "<128 hex digits>">>
SigOddPrefix == <<"zz", "<130 hex digits: signature by d8da..6045>">>
EngineSigs == {SigByAddr1, SigByAddr2, SigShort, SigNotHex, SigBare, SigOddPrefix}

NoOptions == [domain |-> None, nonce |-> None, timestamp |-> None, rpc_url |-> None]

EngineOptions ==
    [domain : {None, Some("example.com"), Some("evil.com"), Some(BadDomain)},
     nonce : {None, Some("nonce0001"), Some("nonce0002")},
     timestamp : {None, Some(TsCanon[3]), Some(BadTimestamp)},
     rpc_url : {None, Some(GoodRpcUrl), Some(BadRpcUrl)}]

\* the requests of the concurrent specification
SampleRecord == Timed(TsCanon[1], None, Some(TsCanon[3]))
SampleText == Serialize(to_eip4361_message(SampleRecord).val)
WithRpc(url) == [NoOptions EXCEPT !.rpc_url = Some(url)]

SampleVerifyCalls ==
    {[message |-> SampleRecord, sig |-> SigByAddr1, opts |-> NoOptions],
     [message |-> SampleRecord, sig |-> SigByAddr2, opts |-> WithRpc(GoodRpcUrl)],
     [message |-> SampleRecord, sig |-> SigByAddr1, opts |-> WithRpc(BadRpcUrl)],
     [message |-> BadRecord, sig |-> SigByAddr1, opts |-> NoOptions]}

SampleParseCalls ==
    {[message |-> SampleText, sig |-> SigByAddr1, opts |-> NoOptions],
     [message |-> SampleText, sig |-> SigByAddr2, opts |-> WithRpc(GoodRpcUrl)],
     [message |-> MalformedText, sig |-> SigByAddr1, opts |-> NoOptions]}

----------------------------------------------------------------------------
(* lib.rs: the synchronous NIFs to_str and parse, applied in turn to one   *)
(* host value.                                                             *)

\* to_str calls made on one host value
MaxToStr == 2

AddressTexts ==
    {<<"0x", "d8da6bf26964af9d7eed9e03e53415d37aa96045">>,
     <<"0x", "D8DA6BF26964AF9D7EED9E03E53415D37AA96045">>,
     <<"0x", "d8dA6BF26964aF9D7eEd9e03E53415D37aA96045">>,
     <<"0x", "5aaeb6053f3e94c9b9a09f33669435e7ef1beaed">>,
     <<"d8", "da6bf26964af9d7eed9e03e53415d37aa96045">>,
     <<"zz", "d8da6bf26964af9d7eed9e03e53415d37aa96045">>,
     <<"0x", "not forty hex digits">>}

ResourceLists ==
    {<<>>, <<"ipfs://res1">>, <<"ipfs://res1", "https://example.com/res2">>,
     <<"https://example.com/res2", "ipfs://res1">>, <<"ipfs://res1", BadUri>>}

\* the records a host builds field by field
ConvRecords ==
    {[BaseRecord EXCEPT !.address = a, !.statement = st, !.issued_at = iat,
                        !.expiration_time = exp, !.not_before = nbf,
                        !.request_id = rid, !.resources = res] :
        a \in AddressTexts,
        st \in {None, Some("Sign in to example")},
        iat \in {TsCanon[1], TsAlt[2], BadTimestamp},
        exp \in {None, Some(TsCanon[3]), Some(TsAlt[3]), Some(BadTimestamp)},
        nbf \in {None, Some(TsCanon[2]), Some(BadTimestamp)},
        rid \in {None, Some("req-7")},
        res \in ResourceLists}
    \cup {BadRecord, [BaseRecord EXCEPT !.uri = BadUri],
          [BaseRecord EXCEPT !.version = "2"]}

\* #[rustler::nif] fn to_str(message: Parsed)
to_str ==
    /\ conv.stage = "record"
    /\ conv.n < MaxToStr
    /\ LET r == to_eip4361_message(conv.rec) IN
       conv' = IF r.ok
               THEN [conv EXCEPT !.stage = "text", !.text = Serialize(r.val),
                                 !.prev = conv.text, !.msg = r.val,
                                 !.n = conv.n + 1]
               ELSE [conv EXCEPT !.stage = "error",
                                 !.err = "Failed to marshal to string"]
    /\ UNCHANGED bridgeVars

\* #[rustler::nif] fn parse(message: String)
parse ==
    /\ conv.stage = "text"
    /\ LET r == ParseText(conv.text) IN
       conv' = IF r.ok
               THEN [conv EXCEPT !.stage = "record", !.rec = message_to_parsed(r.val),
                                 !.msg = r.val]
               ELSE [conv EXCEPT !.stage = "error", !.err = "Failed to parse"]
    /\ UNCHANGED bridgeVars

----------------------------------------------------------------------------
(* Specifications.                                                         *)

ConvIdle ==
    [stage |-> "idle", rec |-> NoParsed, text |-> <<>>, prev |-> <<>>,
     msg |-> NoMessage, n |-> 0, err |-> ""]

Init ==
    /\ clock = 0
    /\ RUNTIME = None
    /\ nifLoaded = FALSE
    /\ built = 0
    /\ lastLoad = None
    /\ tasks = <<>>
    /\ mailbox = [p \in Pids |-> <<>>]
    /\ calls = <<>>
    /\ nCalls = 0
    /\ hostAlive = TRUE
    /\ poolAlive = FALSE
    /\ conv = ConvIdle

TaskStep(i) ==
    \/ RunVerify(i)
    \/ RunParseIfValid(i)
    \/ \E outcome \in RpcOutcomes : RpcDone(i, outcome)
    \/ FreshnessGate(i)
    \/ TaskPanic(i)

\* verify or parse_if_valid called by process p
CallFrom(p) ==
    \/ \E c \in SampleVerifyCalls : verify(p, c.message, c.sig, c.opts)
    \/ \E c \in SampleParseCalls : parse_if_valid(p, c.message, c.sig, c.opts)

\* any number of host processes calling concurrently
Next ==
    \/ \E cfg \in LoadCfgs : Load(cfg)
    \/ LoadBadTerm
    \/ nCalls < MaxCalls /\ \E p \in Pids : CallFrom(p)
    \/ \E i \in DOMAIN tasks : TaskStep(i)
    \/ Tick
    \/ Retire

Spec == Init /\ [][Next]_vars

\* the library loaded once; one request at a time, over every combination
\* of message, signature and options
InitEngine ==
    /\ clock = 0
    /\ \E cfg \in LoadCfgs :
          /\ RUNTIME = Some(cfg)
          /\ lastLoad = Some(cfg)
    /\ nifLoaded = TRUE
    /\ built = 1
    /\ tasks = <<>>
    /\ mailbox = [p \in Pids |-> <<>>]
    /\ calls = <<>>
    /\ nCalls = 0
    /\ hostAlive = TRUE
    /\ poolAlive = TRUE
    /\ conv = ConvIdle

EngineCall ==
    \/ \E r \in EngineRecords, s \in EngineSigs, o \in EngineOptions :
          verify("p1", r, s, o)
    \/ \E t \in EngineTexts, s \in EngineSigs, o \in EngineOptions :
          parse_if_valid("p1", t, s, o)

NextEngine ==
    \/ nCalls < MaxEngineCalls /\ calls = <<>> /\ EngineCall
    \/ \E i \in DOMAIN tasks : TaskStep(i)
    \/ Tick
    \/ Retire

SpecEngine == InitEngine /\ [][NextEngine]_vars

\* a host record serialised, parsed back and serialised again
InitConv ==
    /\ clock = 0
    /\ RUNTIME = None
    /\ nifLoaded = TRUE
    /\ built = 0
    /\ lastLoad = None
    /\ tasks = <<>>
    /\ mailbox = [p \in Pids |-> <<>>]
    /\ calls = <<>>
    /\ nCalls = 0
    /\ hostAlive = TRUE
    /\ poolAlive = FALSE
    /\ \E r \in ConvRecords : conv = [ConvIdle EXCEPT !.stage = "record", !.rec = r]

NextConv == to_str \/ parse

SpecConv == InitConv /\ [][NextConv]_vars

----------------------------------------------------------------------------
(* What was delivered for a unit of work.                                  *)

Sent(i) == i \in DOMAIN tasks /\ tasks[i].pc = "sent"

\* the result message of task i in its caller's mailbox
Reply(i) ==
    LET box == mailbox[tasks[i].caller] IN
    box[CHOOSE k \in 1..Len(box) : box[k].task = i]

\* the delivered outcome is an acceptance: true, or {:ok, message}
Accepted(i) ==
    \/ Reply(i).tag = "bool" /\ Reply(i).bool
    \/ Reply(i).tag = "ok"

\* the message the request is about, as far as the request names one
MsgDomain(t) == IF t.kind = "verify" THEN t.rec.domain ELSE t.text[1][2]
MsgNonce(t) == IF t.kind = "verify" THEN t.rec.nonce ELSE t.m.val.nonce

\* the request got as far as the engine
EngineReached(t) == t.m.ok /\ t.timeSrc # ""

DomainPasses(t) == t.opts.domain = None \/ Unwrap(t.opts.domain) = t.m.val.domain
NoncePasses(t) == t.opts.nonce = None \/ Unwrap(t.opts.nonce) = t.m.val.nonce
SigPasses(t) ==
    \/ RecoveryPasses(t.m.val, IF t.kind = "verify" THEN HexDecode(t.sig).val
                                                   ELSE HexDecode65(t.sig).val)
    \/ t.rpcOutcome = "valid"

----------------------------------------------------------------------------
(* Claims.                                                                 *)

\* C1 (as stated): whenever the caller supplies options.domain and it differs
\* from the message's domain, the delivered outcome is a rejection, for every
\* supplied domain string, well-formed authority or not.
C1_SuppliedDomainGates ==
    \A i \in DOMAIN tasks :
        (/\ Sent(i)
         /\ IsSome(tasks[i].raw.domain)
         /\ Unwrap(tasks[i].raw.domain) # MsgDomain(tasks[i]))
        => ~Accepted(i)

\* C2: whenever the caller supplies options.nonce and it differs from the
\* message's nonce, the delivered outcome is a rejection (false for verify),
\* and parse_if_valid names NonceMismatch once the signature text decoded,
\* the text parsed and the domain check passed.
C2_SuppliedNonceGates ==
    \A i \in DOMAIN tasks :
        (/\ Sent(i)
         /\ IsSome(tasks[i].raw.nonce)
         /\ Unwrap(tasks[i].raw.nonce) # MsgNonce(tasks[i]))
        => /\ ~Accepted(i)
           /\ (tasks[i].kind = "parse_if_valid" /\ EngineReached(tasks[i])
               /\ DomainPasses(tasks[i]))
              => Reply(i).err = "NonceMismatch"

C2_Witness ==
    \E i \in DOMAIN tasks :
        /\ Sent(i)
        /\ tasks[i].kind = "parse_if_valid"
        /\ tasks[i].raw.nonce = Some("nonce0002")
        /\ tasks[i].m.ok /\ tasks[i].m.val.nonce = "nonce0001"
        /\ tasks[i].sig = SigByAddr1
        /\ ValidAt(tasks[i].m.val, tasks[i].evalAt)
        /\ Reply(i).err = "NonceMismatch"

\* the time window of the claim, read from the record the caller supplied
RecordValidAt(rec, now) ==
    /\ TimeStampFromStr(rec.issued_at).val <= now
    /\ (rec.not_before = None
        \/ TimeStampFromStr(Unwrap(rec.not_before)).val <= now)
    /\ (rec.expiration_time = None
        \/ now < TimeStampFromStr(Unwrap(rec.expiration_time)).val)

WellTimed(rec) ==
    /\ rec.not_before = None \/ TimeStampFromStr(Unwrap(rec.not_before)).ok
    /\ rec.expiration_time = None \/ TimeStampFromStr(Unwrap(rec.expiration_time)).ok

C4_SuppliedTimestampUsed ==
    \A i \in DOMAIN tasks :
        (EngineReached(tasks[i]) /\ IsSome(tasks[i].raw.timestamp))
        => tasks[i].timeSrc = "override"

\* C5: parse_if_valid delivers {:ok, message} only if the text parsed, verify
\* accepted and the message is valid at the wall-clock time of the second
\* check; when parse and verify succeeded but the message is not valid then,
\* it delivers the error "Invalid time", which no parse failure and no
\* verify rejection produces.
C5_FreshnessGate ==
    \A i \in DOMAIN tasks :
        (Sent(i) /\ tasks[i].kind = "parse_if_valid")
        => LET t == tasks[i]
               passed == t.m.ok /\ t.vres = "pass"
           IN  /\ Reply(i).tag = "ok"
                  => /\ passed
                     /\ ValidAt(t.m.val, t.checkedAt)
                     /\ Reply(i).parsed = message_to_parsed(ParseText(t.text).val)
               /\ (passed /\ ~ValidAt(t.m.val, t.checkedAt))
                  => (Reply(i).tag = "error" /\ Reply(i).err = "Invalid time")
               /\ (Reply(i).tag = "error" /\ Reply(i).err = "Invalid time")
                  => (passed /\ t.checkedAt >= 0)

\* verified against the wall clock, then stale at the second check
C5_Witness ==
    \E i \in DOMAIN tasks :
        /\ Sent(i)
        /\ tasks[i].kind = "parse_if_valid"
        /\ tasks[i].raw.timestamp = None
        /\ tasks[i].vres = "pass"
        /\ tasks[i].evalAt < tasks[i].checkedAt
        /\ Reply(i).err = "Invalid time"

\* C6 (as stated): every call returns the acknowledgement, and every unit of
\* work that has ended left exactly one result message, in the mailbox of
\* the process that made the call and in no other.
C6_AckAndOneReply ==
    /\ \A k \in DOMAIN calls : calls[k].ret = "ok"
    /\ \A i \in DOMAIN tasks :
          Finished(tasks[i])
          => \A p \in Pids :
                Cardinality({k \in 1..Len(mailbox[p]) : mailbox[p][k].task = i})
                = IF p = tasks[i].caller THEN 1 ELSE 0

\* C7 (as stated): a unit of work that panicked left an error result in its
\* caller's mailbox.
C7_PanicReported ==
    \A i \in DOMAIN tasks :
        tasks[i].pc = "panicked"
        => \E k \in 1..Len(mailbox[tasks[i].caller]) :
              /\ mailbox[tasks[i].caller][k].task = i
              /\ mailbox[tasks[i].caller][k].tag = "error"

\* the runtime can run the next step of unit of work i
CanStep(i) ==
    \/ Runnable(i, "verify", "spawned")
    \/ Runnable(i, "parse_if_valid", "spawned")
    \/ Runnable(i, tasks[i].kind, "rpc")
    \/ Runnable(i, "parse_if_valid", "verified")

\* C8: after any sequence of requests, failing ones included, the host and
\* the worker pool are alive and every unit of work still in flight can take
\* its next step: no request's failure stops the host, the pool or another
\* request.
C8_NoFailureIsFatal ==
    /\ hostAlive
    /\ RUNTIME # None => poolAlive
    /\ \A i \in DOMAIN tasks : ~Finished(tasks[i]) => CanStep(i)

\* a call that raised, then a later request served to its end
C8_Witness ==
    /\ Len(calls) = 2
    /\ calls[1].ret = "raised"
    /\ calls[2].ret = "ok"
    /\ Sent(calls[2].task)
    /\ Accepted(calls[2].task)

\* C9: the cell is filled once, by the first load that reaches it and with
\* that load's configuration; no later load and no verify / parse_if_valid
\* call builds a runtime or changes the cell, and every unit of work is
\* spawned on the runtime the cell holds.
C9_SingletonPool ==
    [][/\ RUNTIME # None => RUNTIME' = RUNTIME
       /\ (RUNTIME = None /\ RUNTIME' # None) => (RUNTIME' = lastLoad' /\ built' = 1)
       /\ built' <= 1
       /\ (tasks' # tasks \/ calls' # calls) => (RUNTIME' = RUNTIME /\ built' = built)
       /\ \A i \in DOMAIN tasks' : tasks'[i].pool = RUNTIME' /\ RUNTIME' # None]_vars

\* a second load with another configuration, and work on the first pool
C9_Witness ==
    /\ RUNTIME # None
    /\ lastLoad # RUNTIME
    /\ built = 1
    /\ \E i \in DOMAIN tasks : Sent(i) /\ tasks[i].pool = RUNTIME

\* C10: what to_str gives for a record that parse returned equals the text
\* parse was given; parse never fails on a text to_str produced, nor to_str
\* on a record parse returned; and converting the record parse returned back
\* gives the Message it was made from, every field and the order of the
\* resources included.
C10_RoundTrip ==
    /\ (conv.stage = "text" /\ conv.n >= 2) => conv.text = conv.prev
    /\ conv.n >= 1 => conv.stage # "error"
    /\ (conv.stage = "record" /\ conv.n >= 1)
       => to_eip4361_message(conv.rec) = MsgOk(conv.msg)

\* a message with every optional field and two resources, round-tripped
C10_Witness ==
    /\ conv.stage = "text"
    /\ conv.n = 2
    /\ IsSome(conv.msg.statement) /\ IsSome(conv.msg.expiration_time)
    /\ IsSome(conv.msg.not_before) /\ IsSome(conv.msg.request_id)
    /\ conv.msg.resources = <<"https://example.com/res2", "ipfs://res1">>
    /\ conv.text = conv.prev

\* the line of a canonical text that starts with key, if there is one
LineOf(text, key) ==
    IF \E k \in 1..Len(text) : text[k][1] = key
    THEN Some(text[CHOOSE k \in 1..Len(text) : text[k][1] = key])
    ELSE None

\* every field of a host record satisfies the invariant of its type
RecordWellFormed(rec) ==
    /\ AuthorityFromStr(rec.domain).ok
    /\ HexDecode20(rec.address[2]).ok
    /\ UriFromStr(rec.uri).ok
    /\ VersionFromStr(rec.version).ok
    /\ TimeStampFromStr(rec.issued_at).ok
    /\ WellTimed(rec)
    /\ \A k \in 1..Len(rec.resources) : UriFromStr(rec.resources[k]).ok

\* C11 (as stated): to_str succeeds only on a record whose fields are all
\* well formed (domain, address, uri, version, issued_at, expiration_time,
\* not_before, every resource), and the text it returns has a line for every
\* optional field the record supplies (expiration_time, not_before,
\* statement, request_id).
C11_NoSilentDrop ==
    (conv.stage = "text" /\ conv.n = 1)
    => /\ RecordWellFormed(conv.rec)
       /\ IsSome(conv.rec.expiration_time) => IsSome(LineOf(conv.text, "Expiration Time"))
       /\ IsSome(conv.rec.not_before) => IsSome(LineOf(conv.text, "Not Before"))
       /\ IsSome(conv.rec.statement) => IsSome(LineOf(conv.text, "statement"))
       /\ IsSome(conv.rec.request_id) => IsSome(LineOf(conv.text, "Request ID"))

\* the strings of the model that are 40 hex digits
FortyHexDigits ==
    {"d8da6bf26964af9d7eed9e03e53415d37aa96045",
     "D8DA6BF26964AF9D7EED9E03E53415D37AA96045",
     "d8dA6BF26964aF9D7eEd9e03E53415D37aA96045",
     "5aaeb6053f3e94c9b9a09f33669435e7ef1beaed",
     "5AAEB6053F3E94C9B9A09F33669435E7EF1BEAED",
     "5aAeb6053F3E94C9b9A09f33669435E7Ef1BeAed"}

\* C12 (as stated): to_str accepts a record's address only if it is 0x
\* followed by exactly 40 hex digits, in any letter casing; the address line
\* of the text it returns, and the address of the record parse returns, is
\* the checksummed form of the same 20 bytes whatever the casing supplied.
C12_AddressEncoding ==
    /\ (conv.stage = "text" /\ conv.n = 1)
       => /\ conv.rec.address[1] = "0x"
          /\ conv.rec.address[2] \in FortyHexDigits
          /\ LineOf(conv.text, "address")
             = Some(<<"address">> \o ToChecksum(HexDecode20(conv.rec.address[2]).val))
    /\ (conv.stage = "record" /\ conv.n >= 1)
       => conv.rec.address = ToChecksum(conv.msg.address)

\* the signature bytes the request hands to the engine
TaskSig(t) ==
    IF t.kind = "verify" THEN HexDecode(t.sig).val ELSE HexDecode65(t.sig).val

\* the first stage, in the order domain, nonce, time validity, signature,
\* that the request fails
EarliestFailure(t) ==
    IF ~DomainPasses(t) THEN "DomainMismatch"
    ELSE IF ~NoncePasses(t) THEN "NonceMismatch"
    ELSE IF ~ValidAt(t.m.val, t.evalAt) THEN TimeCheck(t.m.val, t.evalAt)
    ELSE IF ~SigPasses(t) THEN "BadSignature"
    ELSE "pass"

C14_SignatureStage ==
    \A i \in DOMAIN tasks :
        (/\ Sent(i)
         /\ EngineReached(tasks[i])
         /\ FieldChecks(tasks[i].m.val, tasks[i].opts, tasks[i].evalAt) = "pass")
        => LET t == tasks[i]
               recovered == RecoveryPasses(t.m.val, TaskSig(t))
           IN  /\ t.vres \in {"pass", "BadSignature"}
               /\ t.vres = "pass"
                  <=> (recovered \/ (IsSome(t.raw.rpc_url) /\ t.rpcOutcome = "valid"))
               /\ t.rpcOutcome # "" <=> (~recovered /\ IsSome(t.raw.rpc_url))
               /\ t.rpcOutcome = "transport_error"
                  => (t.vres = "BadSignature" /\ ~Accepted(i))
               /\ (t.kind = "parse_if_valid" /\ t.vres = "BadSignature")
                  => Reply(i).err = "BadSignature"

\* recovery gives another account, the contract call fails in transport
C14_Witness ==
    \E i \in DOMAIN tasks :
        /\ Sent(i)
        /\ tasks[i].kind = "parse_if_valid"
        /\ tasks[i].sig = SigByAddr2
        /\ tasks[i].rpcOutcome = "transport_error"
        /\ Reply(i).err = "BadSignature"

\* C15: the result message of verify is a boolean; it is true if and only if
\* the record converts to a Message, the signature text hex-decodes and the
\* engine accepts the message with those bytes and the converted options.
C15_VerifyIsBoolean ==
    \A i \in DOMAIN tasks :
        (Sent(i) /\ tasks[i].kind = "verify")
        => LET t  == tasks[i]
               mr == to_eip4361_message(t.rec)
               sr == HexDecode(t.sig)
               v  == EngineVerify(mr.val, sr.val, t.opts, t.evalAt)
               accepts == v = "pass" \/ (v = "rpc" /\ AfterRpc(t.rpcOutcome) = "pass")
           IN  /\ Reply(i).tag = "bool"
               /\ Reply(i).bool <=> (mr.ok /\ sr.ok /\ accepts)

\* a record that converts with a signature text that is not hex: false
C15_Witness ==
    \E i \in DOMAIN tasks :
        /\ Sent(i)
        /\ tasks[i].kind = "verify"
        /\ to_eip4361_message(tasks[i].rec).ok
        /\ tasks[i].sig = SigNotHex
        /\ Reply(i) = BoolMsg(i, FALSE)

\* the signature texts of the model that are 0x and 130 hex digits
SigTextWellFormed(sig) ==
    /\ sig[1] = "0x"
    /\ sig[2] \in {"<130 hex digits: signature by d8da..6045>",
                   "<130 hex digits: signature by 5aae..aaed>"}

\* C16 (as stated): a parse_if_valid request whose signature text is not 0x
\* followed by exactly 130 hex digits ends with the error of the signature
\* conversion, without the text being parsed or the engine being invoked.
C16_OnlyPrefixedSignature ==
    \A i \in DOMAIN tasks :
        (/\ tasks[i].kind = "parse_if_valid"
         /\ tasks[i].pc # "spawned"
         /\ ~SigTextWellFormed(tasks[i].sig))
        => /\ Sent(i)
           /\ Reply(i) = ErrMsg(i, "Failed to convert sig to bytes")
           /\ ~tasks[i].m.ok
           /\ ~EngineReached(tasks[i])

\* the result of the request of unit of work i computed from its own
\* message, signature, options, clock readings and contract answer alone
ResultAlone(i, t) ==
    IF t.kind = "verify"
    THEN LET mr == to_eip4361_message(t.rec)
             sr == HexDecode(t.sig)
             v  == EngineVerify(mr.val, sr.val, OptsInto(t.raw), t.evalAt)
             f  == IF v = "rpc" THEN AfterRpc(t.rpcOutcome) ELSE v
         IN  BoolMsg(i, mr.ok /\ sr.ok /\ VerifyResult(f))
    ELSE LET sr == HexDecode65(t.sig)
             mr == ParseText(t.text)
             v  == EngineVerify(mr.val, sr.val, OptsInto(t.raw), t.evalAt)
             f  == IF v = "rpc" THEN AfterRpc(t.rpcOutcome) ELSE v
         IN  IF ~sr.ok THEN ErrMsg(i, "Failed to convert sig to bytes")
             ELSE IF ~mr.ok THEN ErrMsg(i, mr.err)
             ELSE IF f # "pass" THEN ErrMsg(i, f)
             ELSE GateResult(i, mr.val, t.checkedAt)

\* C17: under every interleaving, the result delivered for a request is the
\* one its own inputs and clock readings give, it is in the mailbox whatever
\* the other requests did, and a step of one unit of work changes no other
\* unit of work and no result already delivered.
C17_NoInterference ==
    /\ [](\A i \in DOMAIN tasks :
            Sent(i) => \E k \in 1..Len(mailbox[tasks[i].caller]) :
                          mailbox[tasks[i].caller][k] = ResultAlone(i, tasks[i]))
    /\ [][\A i \in DOMAIN tasks :
            (i \in DOMAIN tasks' /\ tasks'[i] # tasks[i])
            => /\ \A j \in DOMAIN tasks : j # i => tasks'[j] = tasks[j]
               /\ \A p \in Pids :
                     {mailbox'[p][k] : k \in 1..Len(mailbox'[p])}
                       \ {mailbox[p][k] : k \in 1..Len(mailbox[p])}
                     \subseteq {m \in {mailbox'[p][k] : k \in 1..Len(mailbox'[p])} :
                                   m.task = i /\ p = tasks[i].caller}
               /\ \A p \in Pids : \A k \in 1..Len(mailbox[p]) :
                     mailbox'[p][k] = mailbox[p][k]]_vars

\* two requests of one caller in flight together, the second answered first
C17_Witness ==
    /\ Len(tasks) = 2
    /\ Sent(1) /\ Sent(2)
    /\ tasks[1].caller = tasks[2].caller
    /\ tasks[1].kind # tasks[2].kind
    /\ Len(mailbox[tasks[1].caller]) = 2
    /\ mailbox[tasks[1].caller][1] = ResultAlone(2, tasks[2])
    /\ mailbox[tasks[1].caller][2] = ResultAlone(1, tasks[1])

\* C18: whenever verify and parse_if_valid can be called (the library's load
\* callback returned), the cell holds the one runtime a load built, and every
\* unit of work was spawned with the cell filled.
C18_SpawnFindsRuntime ==
    /\ nifLoaded => (RUNTIME # None /\ built = 1)
    /\ \A i \in DOMAIN tasks : tasks[i].pool # None

\* work submitted by both entry points after the load
C18_Witness ==
    /\ nifLoaded
    /\ Len(tasks) = 2
    /\ tasks[1].kind = "verify" /\ tasks[2].kind = "parse_if_valid"
    /\ tasks[1].pool = RUNTIME /\ tasks[2].pool = RUNTIME
    /\ tasks[1].pc = "spawned" /\ tasks[2].pc = "spawned"

====
